---- MODULE Spec2Model ----
(***************************************************************************)
(* A model of the dense-matrix library linalg (src/src/lib.rs).            *)
(*                                                                         *)
(* A Matrix is the record [rows, cols, data]; data is the flat row-major   *)
(* Vec<f64>, a sequence whose element k+1 is the Vec's element k.  The     *)
(* f64 elements are modelled by integers: every value the model computes   *)
(* is an integer of small magnitude, for which f64 arithmetic (+, *, ==)   *)
(* is exact.  The text rendering, which depends on fractions and signs,    *)
(* uses fixed-point thousandths (see number_of_digits).                    *)
(*                                                                         *)
(* An operation's outcome is a record [kind, val, msg]:                    *)
(*   kind = "ok"     the operation returned val                            *)
(*   kind = "err"    the operation returned Result::Err(msg)               *)
(*   kind = "panic"  the operation panicked with msg (no value returned)   *)
(***************************************************************************)
EXTENDS Integers, Sequences, FiniteSets, TLC

\* ------------------------------------------------------------------ bounds
\* Largest number of rows or of columns of an input matrix.
MaxDim == 2
\* Largest length of an input matrix's backing storage.
MaxLen == 4
\* Input elements are drawn from 0..MaxVal.
MaxVal == 1

\* ---------------------------------------------------------------- outcomes
NoVal == <<>>
Ok(v) == [kind |-> "ok", val |-> v, msg |-> <<>>]
Err(m) == [kind |-> "err", val |-> NoVal, msg |-> m]
Panic(m) == [kind |-> "panic", val |-> NoVal, msg |-> m]

\* Sequencing: r is evaluated first; a panic (or an Err) in r ends the
\* operation with that outcome, otherwise the operation goes on with the
\* value of r.
Then(r, K(_)) == IF r.kind # "ok" THEN r ELSE CHOOSE res \in {K(v) : v \in {r.val}} : TRUE

\* ------------------------------------------------------------------ Matrix
Matrix(r, c, d) == [rows |-> r, cols |-> c, data |-> d]

\* vec![val; n]
vec(val, n) == [k \in 1..n |-> val]

\* Vec<f64>: data[k], bounds-checked by the standard library.
vec_index(d, k) ==
    IF k < Len(d) THEN Ok(d[k + 1])
    ELSE Panic(<<"index out of bounds: the len is", Len(d), "but the index is", k>>)

\* from_scalar with the storage sized by the columns alone.
from_scalar_cols_squared(n_rows, n_cols, val) ==
    Matrix(n_rows, n_cols, vec(val, n_cols * n_cols))

from_scalar(n_rows, n_cols, val) == Matrix(n_rows, n_cols, vec(val, n_cols * n_rows))

RECURSIVE from_2d_vec_rows(_, _, _, _)
from_2d_vec_rows(n_cols, data, k, data_formatted) ==
    IF k > Len(data) THEN Ok(data_formatted)
    ELSE IF Len(data[k]) # n_cols THEN Err("Inconsistent column length")
    ELSE from_2d_vec_rows(n_cols, data, k + 1, data_formatted \o data[k])

from_2d_vec(n_rows, n_cols, data) ==
    IF Len(data) # n_rows THEN Err("Inconsistent row length")
    ELSE Then(from_2d_vec_rows(n_cols, data, 1, <<>>), LAMBDA data_formatted :
         Ok(Matrix(n_rows, n_cols, data_formatted)))

RECURSIVE identity_diag(_, _, _)
identity_diag(size, i, data) ==
    IF i >= size THEN data
    ELSE identity_diag(size, i + 1, [data EXCEPT ![i * size + i + 1] = 1])

identity(size) == Matrix(size, size, identity_diag(size, 0, vec(0, size * size)))

shape(m) == <<m.rows, m.cols>>

IndexMsg(m, i, j) ==
    <<"index out of bounds: the shape is", m.rows, m.cols, "but the index is", i, j>>

\* Index::index, self[(i, j)]
index(m, i, j) ==
    IF i < m.rows /\ j < m.cols THEN vec_index(m.data, i * m.cols + j)
    ELSE Panic(IndexMsg(m, i, j))

\* IndexMut::index_mut followed by the store, self[(i, j)] = v
index_mut(m, i, j, v) ==
    IF i < m.rows /\ j < m.cols
    THEN LET k == i * m.cols + j
         IN  IF k < Len(m.data) THEN Ok([m EXCEPT !.data[k + 1] = v])
             ELSE Panic(<<"index out of bounds: the len is", Len(m.data), "but the index is", k>>)
    ELSE Panic(IndexMsg(m, i, j))

clone(m) == Matrix(m.rows, m.cols, m.data)

RECURSIVE transpose_loop(_, _, _, _)
transpose_loop(m, out, i, j) ==
    IF i >= out.rows THEN Ok(out)
    ELSE IF j >= out.cols THEN transpose_loop(m, out, i + 1, 0)
    ELSE Then(index(m, j, i), LAMBDA x :
         Then(index_mut(out, i, j, x), LAMBDA o :
         transpose_loop(m, o, i, j + 1)))

\* transpose that keeps the shape of the original for the result.
transpose_same_shape(m) ==
    transpose_loop(m, Matrix(m.rows, m.cols, vec(0, m.cols * m.rows)), 0, 0)

transpose(m) ==
    transpose_loop(m, Matrix(m.cols, m.rows, vec(0, m.cols * m.rows)), 0, 0)

RECURSIVE eq_loop(_, _, _, _)
eq_loop(lhs, rhs, i, j) ==
    IF i >= lhs.rows THEN Ok(TRUE)
    ELSE IF j >= lhs.cols THEN eq_loop(lhs, rhs, i + 1, 0)
    ELSE Then(index(lhs, i, j), LAMBDA x :
         Then(index(rhs, i, j), LAMBDA y :
         IF x # y THEN Ok(FALSE) ELSE eq_loop(lhs, rhs, i, j + 1)))

\* eq that compares the numbers of rows only before the elements.
eq_rows_only(lhs, rhs) ==
    IF lhs.rows # rhs.rows THEN Ok(FALSE) ELSE eq_loop(lhs, rhs, 0, 0)

\* PartialEq::eq
eq(lhs, rhs) ==
    IF shape(lhs) # shape(rhs) THEN Ok(FALSE) ELSE eq_loop(lhs, rhs, 0, 0)

Min(x, y) == IF x < y THEN x ELSE y

AddMsg(lhs, rhs) ==
    <<"Matrices of different shapes cannot be added together.",
      "Left", lhs.rows, lhs.cols, "Right", rhs.rows, rhs.cols>>

\* add that checks the numbers of rows only.
add_rows_only(lhs, rhs) ==
    IF lhs.rows # rhs.rows THEN Panic(AddMsg(lhs, rhs))
    ELSE Ok(Matrix(lhs.rows, lhs.cols,
                   [k \in 1..Min(Len(lhs.data), Len(rhs.data)) |-> lhs.data[k] + rhs.data[k]]))

\* Add::add
add(lhs, rhs) ==
    IF lhs.rows # rhs.rows \/ lhs.cols # rhs.cols THEN Panic(AddMsg(lhs, rhs))
    ELSE Ok(Matrix(lhs.rows, lhs.cols,
                   [k \in 1..Min(Len(lhs.data), Len(rhs.data)) |-> lhs.data[k] + rhs.data[k]]))

MulMsg(lhs, rhs) ==
    <<"LHS cols must be same as RHS rows to multiply.",
      "LHS", lhs.rows, lhs.cols, "RHS", rhs.rows, rhs.cols>>

\* The inner product with the right operand read at (j, k).
RECURSIVE mul_dot_swapped(_, _, _, _, _, _)
mul_dot_swapped(lhs, rhs, i, j, k, el) ==
    IF k >= lhs.cols THEN Ok(el)
    ELSE Then(index(lhs, i, k), LAMBDA x :
         Then(index(rhs, j, k), LAMBDA y :
         mul_dot_swapped(lhs, rhs, i, j, k + 1, el + x * y)))

RECURSIVE mul_dot(_, _, _, _, _, _)
mul_dot(lhs, rhs, i, j, k, el) ==
    IF k >= lhs.cols THEN Ok(el)
    ELSE Then(index(lhs, i, k), LAMBDA x :
         Then(index(rhs, k, j), LAMBDA y :
         mul_dot(lhs, rhs, i, j, k + 1, el + x * y)))

RECURSIVE mul_loop(_, _, _, _, _)
mul_loop(lhs, rhs, out, i, j) ==
    IF i >= out.rows THEN Ok(out)
    ELSE IF j >= out.cols THEN mul_loop(lhs, rhs, out, i + 1, 0)
    ELSE Then(mul_dot(lhs, rhs, i, j, 0, 0), LAMBDA el :
         Then(index_mut(out, i, j, el), LAMBDA o :
         mul_loop(lhs, rhs, o, i, j + 1)))

\* Mul for Matrix: matrix multiplication
mul(lhs, rhs) ==
    IF lhs.cols # rhs.rows THEN Panic(MulMsg(lhs, rhs))
    ELSE mul_loop(lhs, rhs, from_scalar(lhs.rows, rhs.cols, 0), 0, 0)

RECURSIVE mul_assign_dot(_, _, _, _, _, _)
mul_assign_dot(lhs, rhs, i, j, k, el) ==
    IF k >= lhs.cols THEN Ok(el)
    ELSE Then(index(lhs, i, k), LAMBDA x :
         Then(index(rhs, k, j), LAMBDA y :
         mul_assign_dot(lhs, rhs, i, j, k + 1, el + x * y)))

RECURSIVE mul_assign_loop(_, _, _, _, _)
mul_assign_loop(lhs, rhs, out, i, j) ==
    IF i >= out.rows THEN Ok(out)
    ELSE IF j >= out.cols THEN mul_assign_loop(lhs, rhs, out, i + 1, 0)
    ELSE Then(mul_assign_dot(lhs, rhs, i, j, 0, 0), LAMBDA el :
         Then(index_mut(out, i, j, el), LAMBDA o :
         mul_assign_loop(lhs, rhs, o, i, j + 1)))

\* mul_assign that writes the product into the storage of *self.
mul_assign_in_place(lhs, rhs) ==
    IF lhs.cols # rhs.rows THEN Panic(MulMsg(lhs, rhs))
    ELSE mul_assign_loop(lhs, rhs, clone(lhs), 0, 0)

\* MulAssign::mul_assign: Ok(v) carries the new value of *self; on a panic
\* *self has not been assigned.
mul_assign(lhs, rhs) ==
    IF lhs.cols # rhs.rows THEN Panic(MulMsg(lhs, rhs))
    ELSE mul_assign_loop(lhs, rhs, from_scalar(lhs.rows, rhs.cols, 0), 0, 0)

\* Mul<f64> for Matrix
mul_f64(m, s) == [m EXCEPT !.data = [k \in 1..Len(m.data) |-> m.data[k] * s]]

\* Mul<Matrix> for f64
f64_mul(s, m) == mul_f64(m, s)

\* pow_helper without the product of the odd exponents.
RECURSIVE pow_helper_squares_only(_, _)
pow_helper_squares_only(m, e) ==
    IF e = 0 THEN Ok(identity(m.rows))
    ELSE Then(mul(clone(m), clone(m)), LAMBDA sq : pow_helper_squares_only(sq, e \div 2))

RECURSIVE pow_helper(_, _)
pow_helper(m, e) ==
    IF e = 0 THEN Ok(identity(m.rows))
    ELSE IF e % 2 = 0
    THEN Then(mul(clone(m), clone(m)), LAMBDA sq : pow_helper(sq, e \div 2))
    ELSE Then(mul(clone(m), clone(m)), LAMBDA sq :
         Then(pow_helper(sq, e \div 2), LAMBDA rest :
         mul(clone(m), rest)))

\* pow that looks at the exponent before the shape.
pow_exponent_first(m, e) ==
    IF e = 0 THEN Ok(identity(m.rows))
    ELSE IF m.rows # m.cols THEN Panic("Can only raise square matrices to a power.")
    ELSE IF e < 0 THEN Panic("Can only raise matrices to a positive power.")
    ELSE pow_helper(clone(m), e)

pow(m, e) ==
    IF m.rows # m.cols THEN Panic("Can only raise square matrices to a power.")
    ELSE IF e = 0 THEN Ok(identity(m.rows))
    ELSE IF e < 0 THEN Panic("Can only raise matrices to a positive power.")
    ELSE pow_helper(clone(m), e)

\* ------------------------------------------------------------------ inputs
Dims == 0..MaxDim
Vals == 0..MaxVal
Shapes == {sh \in Dims \X Dims : sh[1] * sh[2] <= MaxLen}
\* Every well-formed matrix within the bounds.
Mats == UNION {{Matrix(sh[1], sh[2], d) : d \in [1..(sh[1] * sh[2]) -> Vals]} : sh \in Shapes}
\* Matrices a caller builds with from_scalar and identity.
Built == {from_scalar(sh[1], sh[2], v) : sh \in Shapes, v \in Vals}
             \cup {identity(sh[1]) : sh \in {x \in Shapes : x[1] = x[2]}}
\* The rows of a matrix, as the caller of from_2d_vec writes them.
RowsOf(m) == [i \in 1..m.rows |-> SubSeq(m.data, (i - 1) * m.cols + 1, i * m.cols)]
\* Vec<Vec<f64>> arguments: well-formed rows, and the same with the last row
\* one element short.
Ragged(rows) ==
    IF Len(rows) > 0 /\ Len(rows[Len(rows)]) > 0
    THEN [rows EXCEPT ![Len(rows)] = SubSeq(@, 1, Len(@) - 1)]
    ELSE rows
Vec2d == LET full == {RowsOf(from_scalar(sh[1], sh[2], MaxVal)) : sh \in Shapes}
         IN  full \cup {Ragged(rows) : rows \in full}
\* The shapes a caller declares for data: the shape of its rows, or one off.
Declared(data) ==
    LET r == Len(data)
        c == IF r = 0 THEN 0 ELSE Len(data[1])
    IN  {<<r, c>>, <<r + 1, c>>, <<r, c + 1>>} \cap (Dims \X Dims)

\* The operations that return a Matrix.
ReturnsMatrix == {"from_scalar", "from_2d_vec", "identity", "clone", "add", "mul",
                  "mul_f64", "f64_mul", "transpose", "pow"}

\* The model explores matrices within the bounds only.
InBounds(m) ==
    /\ m.rows <= MaxDim
    /\ m.cols <= MaxDim
    /\ Len(m.data) <= MaxLen
    /\ \A k \in 1..Len(m.data) : m.data[k] \in Vals

\* Matrices of the repository's tests and demo (tests/test.rs, src/main.rs).
Sample(rows) == from_2d_vec(Len(rows), Len(rows[1]), rows).val
Sample22 == Sample(<<<<1, 2>>, <<3, 4>>>>)
Sample23 == Sample(<<<<1, 2, 3>>, <<4, 5, 6>>>>)
Sample32 == Sample(<<<<1, 2>>, <<3, 4>>, <<1, 2>>>>)
SampleMat1 == Sample(<<<<1000, 0, 1>>, <<0, 3, 5>>>>)
Samples == {Sample22, Sample23, Sample32, SampleMat1,
            Sample(<<<<1, 2, 4>>, <<2, 3, 4>>>>),
            Sample(<<<<1, 2>>, <<2, 3>>>>),
            Sample(<<<<2, 3>>, <<3, 4>>>>)}
\* The operands of the checks of single operations.
Inputs == Mats \cup Samples

\* Largest exponent passed to pow.
MaxExp == 6
Exps == (0 - 1)..MaxExp

\* ------------------------------------------------------------------- state
VARIABLES
    mat,    \* the caller's matrix (the receiver, self)
    op,     \* the last operation called
    arg,    \* its arguments
    ret,    \* its outcome
    run     \* the call of pow in progress, when its steps are followed

vars == <<mat, op, arg, ret, run>>

\* No call of pow is being followed.
Idle == [pc |-> "idle", stack |-> <<>>, cur |-> NoVal, val |-> NoVal, muls |-> 0, depth |-> 0]

\* An operation that takes self by value, or assigns to it: the caller is
\* left with the result.  After a panic the caller's matrix is as it was.
Consume(name, a, r) ==
    /\ op' = name
    /\ arg' = a
    /\ ret' = r
    /\ mat' = IF r.kind = "ok" THEN r.val ELSE mat
    /\ run' = run

\* An operation that takes &self.
Borrow(name, a, r) ==
    /\ op' = name
    /\ arg' = a
    /\ ret' = r
    /\ mat' = mat
    /\ run' = run

FromScalar(r, c, v) == Consume("from_scalar", <<r, c, v>>, Ok(from_scalar(r, c, v)))

From2dVec(r, c, data) == Consume("from_2d_vec", <<r, c, data>>, from_2d_vec(r, c, data))

Identity(n) == Consume("identity", <<n>>, Ok(identity(n)))

Shape == Borrow("shape", <<>>, Ok(shape(mat)))

Clone == Borrow("clone", <<>>, Ok(clone(mat)))

Get(i, j) == Borrow("get", <<i, j>>, index(mat, i, j))

\* mat[(i, j)] = v
Set(i, j, v) == Consume("set", <<i, j, v>>, index_mut(mat, i, j, v))

Eq(rhs) == Borrow("eq", rhs, eq(mat, rhs))

Add(rhs) == Consume("add", rhs, add(mat, rhs))

Mul(rhs) == Consume("mul", rhs, mul(mat, rhs))

\* mat *= rhs
MulAssign(rhs) == Consume("mul_assign", rhs, mul_assign(mat, rhs))

MulF64(s) == Consume("mul_f64", s, Ok(mul_f64(mat, s)))

F64Mul(s) == Consume("f64_mul", s, Ok(f64_mul(s, mat)))

Transpose == Consume("transpose", <<>>, transpose(mat))

Pow(e) == Borrow("pow", e, pow(mat, e))

\* ------------------------------------------------ the life of one matrix
\* Any sequence of the public operations on the caller's matrix.  The right
\* operands are the matrices the caller builds and the matrix the last
\* operation returned; the exploration stays within the bounds.
Operands == Built \cup (IF op \in ReturnsMatrix /\ ret.kind = "ok" /\ InBounds(ret.val)
                        THEN {ret.val} ELSE {})

\* Largest exponent passed to pow in the life of a matrix.
MaxLifeExp == 2

Init ==
    /\ mat = from_scalar(0, 0, 0)
    /\ op = "from_scalar"
    /\ arg = <<0, 0, 0>>
    /\ ret = Ok(mat)
    /\ run = Idle

Next ==
    \/ \E sh \in Shapes, v \in Vals : FromScalar(sh[1], sh[2], v)
    \/ \E data \in Vec2d : \E sh \in Declared(data) : From2dVec(sh[1], sh[2], data)
    \/ \E sh \in {x \in Shapes : x[1] = x[2]} : Identity(sh[1])
    \/ Shape
    \/ Clone
    \/ \E i \in Dims, j \in Dims : Get(i, j)
    \/ \E i \in Dims, j \in Dims, v \in Vals : Set(i, j, v)
    \/ \E rhs \in Operands : Eq(rhs)
    \/ \E rhs \in Operands : Add(rhs) /\ InBounds(mat')
    \/ \E rhs \in Operands : Mul(rhs) /\ InBounds(mat')
    \/ \E rhs \in Operands : MulAssign(rhs) /\ InBounds(mat')
    \/ \E s \in Vals : MulF64(s) /\ InBounds(mat')
    \/ \E s \in Vals : F64Mul(s) /\ InBounds(mat')
    \/ Transpose
    \/ \E e \in (0 - 1)..MaxLifeExp : Pow(e)

Spec == Init /\ [][Next]_vars

\* --------------------------------------------- one operation on two inputs
\* The binary operations, each applied once to every pair of inputs.
InitInputs ==
    /\ mat \in Inputs
    /\ op = "input"
    /\ arg = <<>>
    /\ ret = Ok(NoVal)
    /\ run = Idle

BinEq == op = "input" /\ \E rhs \in Inputs : Eq(rhs)
BinAdd == op = "input" /\ \E rhs \in Inputs : Add(rhs)
BinMul == op = "input" /\ \E rhs \in Inputs : Mul(rhs)
BinMulAssign == op = "input" /\ \E rhs \in Inputs : MulAssign(rhs)

NextBin == BinEq \/ BinAdd \/ BinMul \/ BinMulAssign

SpecBin == InitInputs /\ [][NextBin]_vars

\* ---------------------------------------------- one operation on one input
\* The unary operations, each applied once to every input.
UnTranspose == op = "input" /\ Transpose
UnPow == op = "input" /\ \E e \in Exps : Pow(e)
UnMulF64 == op = "input" /\ \E s \in Vals : MulF64(s)
UnF64Mul == op = "input" /\ \E s \in Vals : F64Mul(s)
UnClone == op = "input" /\ Clone

NextUn == UnTranspose \/ UnPow \/ UnMulF64 \/ UnF64Mul \/ UnClone

SpecUn == InitInputs /\ [][NextUn]_vars

\* ------------------------------------------------- pow, one step at a time
\* A call of pow followed through the recursion of pow_helper.  run.stack
\* holds the activations of pow_helper that wait for their recursive call,
\* run.cur the arguments of the activation being entered, run.val the value
\* being returned, run.muls the matrix multiplications made so far and
\* run.depth the largest number of waiting activations.
Frame(m, e) == [m |-> m, e |-> e]

\* pow: the checks, then the first call of pow_helper on a clone.
pow_enter(m, e) ==
    IF m.rows # m.cols \/ e <= 0
    THEN [Idle EXCEPT !.pc = "done"]
    ELSE [Idle EXCEPT !.pc = "call", !.cur = Frame(clone(m), e)]

\* pow_helper that takes one off the exponent instead of halving it.
pow_helper_call_linear(r) ==
    IF r.cur.e = 0
    THEN [r EXCEPT !.pc = "return", !.val = identity(r.cur.m.rows), !.cur = NoVal]
    ELSE [r EXCEPT !.cur = Frame(mul(clone(r.cur.m), clone(r.cur.m)).val, r.cur.e - 1),
                   !.stack = Append(r.stack, r.cur),
                   !.muls = r.muls + 1,
                   !.depth = IF Len(r.stack) + 1 > r.depth THEN Len(r.stack) + 1 ELSE r.depth]

\* pow_helper is entered with run.cur: it returns the identity at exponent
\* 0, and otherwise squares its matrix and calls itself with half the
\* exponent.
pow_helper_call(r) ==
    IF r.cur.e = 0
    THEN [r EXCEPT !.pc = "return", !.val = identity(r.cur.m.rows), !.cur = NoVal]
    ELSE [r EXCEPT !.cur = Frame(mul(clone(r.cur.m), clone(r.cur.m)).val, r.cur.e \div 2),
                   !.stack = Append(r.stack, r.cur),
                   !.muls = r.muls + 1,
                   !.depth = IF Len(r.stack) + 1 > r.depth THEN Len(r.stack) + 1 ELSE r.depth]

\* The recursive call returns run.val to the activation on top of the stack,
\* which returns it as it is (even exponent) or multiplied by its matrix (odd
\* exponent); with no activation left, pow returns.
pow_helper_return(r) ==
    IF r.stack = <<>> THEN [r EXCEPT !.pc = "done"]
    ELSE LET f == r.stack[Len(r.stack)]
             rest == SubSeq(r.stack, 1, Len(r.stack) - 1)
         IN  IF f.e % 2 = 0 THEN [r EXCEPT !.stack = rest]
             ELSE [r EXCEPT !.stack = rest,
                            !.val = mul(clone(f.m), r.val).val,
                            !.muls = r.muls + 1]

\* Largest exponent of a followed call.
MaxRunExp == 17
\* Square inputs whose powers stay within 0..1: at most one 1 in each row.
RunInputs ==
    {m \in Mats : /\ m.rows = m.cols
                  /\ \A i \in 0..(m.rows - 1) :
                         Cardinality({j \in 0..(m.cols - 1) : m.data[i * m.cols + j + 1] # 0}) <= 1
                  /\ \A k \in 1..Len(m.data) : m.data[k] <= 1}

InitRun ==
    /\ mat \in RunInputs
    /\ op = "input"
    /\ arg = <<>>
    /\ ret = Ok(NoVal)
    /\ run = Idle

RunPow ==
    /\ run.pc = "idle"
    /\ \E e \in 0..MaxRunExp :
          /\ op' = "pow"
          /\ arg' = e
          /\ run' = pow_enter(mat, e)
          /\ ret' = IF run'.pc = "done" THEN pow(mat, e) ELSE ret
          /\ mat' = mat

RunCall ==
    /\ run.pc = "call"
    /\ run' = pow_helper_call(run)
    /\ UNCHANGED <<mat, op, arg, ret>>

RunReturn ==
    /\ run.pc = "return"
    /\ run' = pow_helper_return(run)
    /\ ret' = IF run'.pc = "done" THEN Ok(run.val) ELSE ret
    /\ UNCHANGED <<mat, op, arg>>

NextRun == RunPow \/ RunCall \/ RunReturn

\* A call that has started runs on: the program is sequential and has
\* nothing else to do.
SpecRun == InitRun /\ [][NextRun]_vars /\ WF_vars(RunCall \/ RunReturn)

\* ---------------------------------------------------------- text rendering
\* The rendering depends on the sign and the magnitude of the elements, so
\* here an f64 element is a decimal [neg, digit, exp], the number
\* (-1)^neg * digit * 10^exp with digit in 0..9; digit = 0 is 0.0.  The text
\* is a sequence of characters.
Dec(neg, digit, exp) == [neg |-> neg, digit |-> digit, exp |-> exp]

\* number.abs() < tol, tol = 1e-8: 9 * 10^-9 is below it, 1 * 10^-8 is not.
abs_below_tol(x) == x.digit = 0 \/ x.exp <= 0 - 9

\* (number.log(10.0) + tol).floor() as i64: the logarithm of a negative
\* number is NaN, which the cast turns into 0; for a positive number
\* log10(digit) lies in [0, 0.96), and tol absorbs the rounding of log.
log10_floor(x) == IF x.neg THEN 0 ELSE x.exp

number_of_digits(x) == IF abs_below_tol(x) THEN 1 ELSE log10_floor(x) + 1

DigitChars == <<"0", "1", "2", "3", "4", "5", "6", "7", "8", "9">>

\* usize::to_string
RECURSIVE usize_to_string(_)
usize_to_string(n) ==
    IF n < 10 THEN <<DigitChars[n + 1]>>
    ELSE usize_to_string(n \div 10) \o <<DigitChars[(n % 10) + 1]>>

\* format!("{}", elem): Display for f64 writes the shortest decimal, with no
\* exponent.
format_f64(x) ==
    (IF x.neg THEN <<"-">> ELSE <<>>) \o
    (IF x.digit = 0 THEN <<"0">>
     ELSE IF x.exp >= 0 THEN <<DigitChars[x.digit + 1]>> \o [k \in 1..x.exp |-> "0"]
     ELSE <<"0", ".">> \o [k \in 1..(0 - x.exp - 1) |-> "0"] \o <<DigitChars[x.digit + 1]>>)

Max(x, y) == IF x > y THEN x ELSE y

\* The first pair of loops of fmt: the largest number_of_digits, from 0.
RECURSIVE fmt_max_num_len(_, _, _, _)
fmt_max_num_len(m, row, col, max_num_len) ==
    IF row >= m.rows THEN Ok(max_num_len)
    ELSE IF col >= m.cols THEN fmt_max_num_len(m, row + 1, 0, max_num_len)
    ELSE Then(index(m, row, col), LAMBDA elem :
         fmt_max_num_len(m, row, col + 1, Max(number_of_digits(elem), max_num_len)))

\* for _ in 0..(max_num_len - num_len) { s.push_str(&sep) }: an empty range
\* when the difference is negative.
fmt_pad(n) == [k \in 1..n |-> " "]

\* The second pair of loops of fmt: the rows, each ended by a newline.
RECURSIVE fmt_rows(_, _, _, _, _)
fmt_rows(m, row, col, max_num_len, s) ==
    IF row >= m.rows THEN Ok(s)
    ELSE IF col >= m.cols THEN fmt_rows(m, row + 1, 0, max_num_len, s \o <<"\n">>)
    ELSE Then(index(m, row, col), LAMBDA elem :
         LET num_len == IF abs_below_tol(elem) THEN 1 ELSE number_of_digits(elem)
             sep == IF col # m.cols - 1 THEN <<" ">> ELSE <<>>
         IN  fmt_rows(m, row, col + 1, max_num_len,
                      s \o fmt_pad(max_num_len - num_len) \o format_f64(elem) \o sep))

\* Display::fmt
fmt(m) ==
    Then(fmt_max_num_len(m, 0, 0, 0), LAMBDA max_num_len :
    Then(fmt_rows(m, 0, 0, max_num_len, <<>>), LAMBDA s :
    Ok(s \o <<"S", "h", "a", "p", "e", ":", " ">> \o usize_to_string(m.rows)
         \o <<"x">> \o usize_to_string(m.cols))))

Fmt == Borrow("fmt", <<>>, fmt(mat))

\* The elements rendered: 0, 1e-9, 0.05, 0.5, 5, 10, 100, -5, -100.
FmtElems == {Dec(FALSE, 0, 0), Dec(FALSE, 1, 0 - 9), Dec(FALSE, 5, 0 - 2), Dec(FALSE, 5, 0 - 1),
             Dec(FALSE, 5, 0), Dec(FALSE, 1, 1), Dec(FALSE, 1, 2),
             Dec(TRUE, 5, 0), Dec(TRUE, 1, 2)}
FmtInputs ==
    UNION {{Matrix(sh[1], sh[2], d) : d \in [1..(sh[1] * sh[2]) -> FmtElems]} : sh \in Shapes}

InitFmt ==
    /\ mat \in FmtInputs
    /\ op = "input"
    /\ arg = <<>>
    /\ ret = Ok(NoVal)
    /\ run = Idle

NextFmt == op = "input" /\ Fmt

SpecFmt == InitFmt /\ [][NextFmt]_vars

\* ------------------------------------------------------------------ claims
\* data.len() == rows * cols
WellFormed(m) == Len(m.data) = m.rows * m.cols

\* C1: every matrix the public operations produce - the caller's matrix after
\* each operation, and the matrix an operation returns - has a backing
\* storage of length rows * cols, zero-sized matrices included.
C1_StorageLength ==
    /\ WellFormed(mat)
    /\ (op \in ReturnsMatrix /\ ret.kind = "ok") => WellFormed(ret.val)

\* A non-square product has replaced the caller's matrix through *=.
C1_Witness ==
    /\ op = "mul_assign"
    /\ ret.kind = "ok"
    /\ mat.rows # mat.cols
    /\ Len(mat.data) = 2

\* The precondition of each operation C2 is about fails in this step.
AddMismatch == op' = "add" /\ (mat.rows # arg'.rows \/ mat.cols # arg'.cols)
MulMismatch == op' = "mul" /\ mat.cols # arg'.rows
OutOfBounds == op' \in {"get", "set"} /\ (arg'[1] >= mat.rows \/ arg'[2] >= mat.cols)

\* C2 as stated: a shape mismatch in addition or multiplication, and an
\* element access out of bounds, come back as a recoverable failure result.
C2_Recoverable ==
    [][(AddMismatch \/ MulMismatch \/ OutOfBounds) => ret'.kind = "err"]_vars

\* C2, amended: they panic - the operation is aborted and returns nothing -
\* with a message that carries both shapes, or the shape and the index, and
\* the caller's matrix is as it was.
C2_Panics ==
    [][/\ AddMismatch => ret' = Panic(AddMsg(mat, arg')) /\ mat' = mat
       /\ MulMismatch => ret' = Panic(MulMsg(mat, arg')) /\ mat' = mat
       /\ OutOfBounds => ret' = Panic(IndexMsg(mat, arg'[1], arg'[2])) /\ mat' = mat
       /\ (op' \in {"add", "mul", "get", "set"} /\ ret'.kind # "ok")
              => (AddMismatch \/ MulMismatch \/ OutOfBounds)]_vars

\* An addition of a 2x1 and a 1x2 matrix has panicked.
C2_Witness ==
    /\ op = "add"
    /\ ret.kind = "panic"
    /\ shape(mat) = <<2, 1>>
    /\ shape(arg) = <<1, 2>>

\* ---- the mathematics the claims are stated in
\* Element (i, j) of a well-formed matrix, row-major.
At(m, i, j) == m.data[i * m.cols + j + 1]

\* sum over k = 0..n-1 of A(i,k) * B(k,j), the terms added in increasing k
RECURSIVE DotSum(_, _, _, _, _)
DotSum(A, B, i, j, n) ==
    IF n = 0 THEN 0 ELSE DotSum(A, B, i, j, n - 1) + At(A, i, n - 1) * At(B, n - 1, j)

\* The matrix product, by its definition.
Product(A, B) ==
    Matrix(A.rows, B.cols,
           [t \in 1..(A.rows * B.cols) |->
               DotSum(A, B, (t - 1) \div B.cols, (t - 1) % B.cols, A.cols)])

\* The n x n matrix with 1 on the diagonal and 0 elsewhere.
Unit(n) == Matrix(n, n, [t \in 1..(n * n) |-> IF (t - 1) \div n = (t - 1) % n THEN 1 ELSE 0])

\* The e-fold product of A.
RECURSIVE Power(_, _)
Power(A, e) == IF e = 0 THEN Unit(A.rows) ELSE Product(Power(A, e - 1), A)

\* C3: A * B with A.cols = B.rows has shape (A.rows, B.cols) and element
\* (i, j) = sum over k of A(i,k) * B(k,j), which is 0 when A.cols = 0; with
\* A.cols # B.rows the multiplication fails and produces no matrix.
C3_Product ==
    [][op' = "mul" =>
          IF mat.cols = arg'.rows
          THEN /\ ret'.kind = "ok"
               /\ shape(ret'.val) = <<mat.rows, arg'.cols>>
               /\ WellFormed(ret'.val)
               /\ \A i \in 0..(mat.rows - 1), j \in 0..(arg'.cols - 1) :
                      At(ret'.val, i, j) = DotSum(mat, arg', i, j, mat.cols)
               /\ mat.cols = 0 => \A t \in 1..Len(ret'.val.data) : ret'.val.data[t] = 0
          ELSE ret'.kind # "ok" /\ ret'.val = NoVal]_vars

\* The 2x3 demo matrix times a 3x2 matrix gave a 2x2 matrix.
C3_Witness ==
    /\ op = "mul"
    /\ arg = Sample32
    /\ ret.kind = "ok"
    /\ mat = Matrix(2, 2, <<1001, 2002, 14, 22>>)

\* C4: A *= B leaves in A the value of A * B computed from the old A, of
\* shape (A.rows, B.cols), and fails exactly when A.cols # B.rows, A then
\* being left unchanged.
C4_MulAssign ==
    [][op' = "mul_assign" =>
          LET p == mul(mat, arg')
          IN  IF mat.cols = arg'.rows
              THEN /\ ret'.kind = "ok"
                   /\ p.kind = "ok"
                   /\ mat' = p.val
                   /\ shape(mat') = <<mat.rows, arg'.cols>>
              ELSE /\ ret'.kind = "panic"
                   /\ p.kind = "panic"
                   /\ ret'.msg = p.msg
                   /\ mat' = mat]_vars

\* A 3x2 matrix has become 3x3 through *= with a 2x3 matrix.
C4_Witness ==
    /\ op = "mul_assign"
    /\ arg = Sample23
    /\ ret.kind = "ok"
    /\ mat = Matrix(3, 3, <<9, 12, 15, 19, 26, 33, 9, 12, 15>>)

\* C5: pow panics exactly when the matrix is not square or the exponent is
\* negative, whatever the exponent in the first case; pow(0) of a square
\* n x n matrix is identity(n); pow leaves the receiver unchanged.
C5_PowFailures ==
    [][op' = "pow" =>
          /\ mat' = mat
          /\ ret'.kind \in {"ok", "panic"}
          /\ ret'.kind = "panic" <=> (mat.rows # mat.cols \/ arg' < 0)
          /\ (mat.rows = mat.cols /\ arg' = 0) => ret' = Ok(Unit(mat.rows))]_vars

\* pow(0) of the square test matrix returned the 2 x 2 identity.
C5_Witness ==
    /\ op = "pow"
    /\ arg = 0
    /\ mat = Sample22
    /\ ret = Ok(Matrix(2, 2, <<1, 0, 0, 1>>))

\* C6: for a square A and exponents a, b >= 0, pow(A, a + b) =
\* pow(A, a) * pow(A, b); pow(A, 1) = A; pow(A, e) is the e-fold product of
\* A; [[1,2],[3,4]] to the 3rd is [[37,54],[81,118]] and to the 4th
\* [[199,290],[435,634]].
C6_PowLaw ==
    (op = "pow" /\ ret.kind = "ok") =>
        /\ \A a \in 0..arg :
               LET pa == pow(mat, a)
                   pb == pow(mat, arg - a)
               IN  pa.kind = "ok" /\ pb.kind = "ok" /\ mul(pa.val, pb.val) = ret
        /\ arg = 1 => ret.val = mat
        /\ ret.val = Power(mat, arg)
        /\ (mat = Sample22 /\ arg = 3) => ret.val.data = <<37, 54, 81, 118>>
        /\ (mat = Sample22 /\ arg = 4) => ret.val.data = <<199, 290, 435, 634>>

\* The test matrix has been raised to the 4th power.
C6_Witness ==
    /\ op = "pow"
    /\ arg = 4
    /\ mat = Sample22
    /\ ret.kind = "ok"
    /\ ret.val.data = <<199, 290, 435, 634>>

\* C7: transpose always succeeds, returns a matrix of shape (cols, rows)
\* with result(i, j) = original(j, i), also for non-square and zero-sized
\* matrices, and the transpose of the result is the original.
C7_Transpose ==
    [][op' = "transpose" =>
          /\ ret'.kind = "ok"
          /\ shape(ret'.val) = <<mat.cols, mat.rows>>
          /\ WellFormed(ret'.val)
          /\ \A i \in 0..(mat.cols - 1), j \in 0..(mat.rows - 1) :
                 At(ret'.val, i, j) = At(mat, j, i)
          /\ transpose(ret'.val) = Ok(mat)]_vars

\* The 2x3 test matrix has been transposed.
C7_Witness ==
    /\ op = "transpose"
    /\ ret.kind = "ok"
    /\ mat = Matrix(3, 2, <<1, 4, 2, 5, 3, 6>>)

\* C8: A == B iff the shapes are identical and every pair of corresponding
\* elements is equal; matrices of different shapes are never equal,
\* zero-sized ones included; the comparison makes no out-of-bounds access;
\* equality is reflexive and symmetric.
C8_Equality ==
    op = "eq" =>
        /\ ret.kind = "ok"
        /\ ret.val <=> /\ mat.rows = arg.rows
                       /\ mat.cols = arg.cols
                       /\ \A i \in 0..(mat.rows - 1), j \in 0..(mat.cols - 1) :
                              At(mat, i, j) = At(arg, i, j)
        /\ shape(mat) # shape(arg) => ret.val = FALSE
        /\ eq(arg, mat) = ret
        /\ eq(mat, mat) = Ok(TRUE)

\* A 0x2 matrix has been compared with a 0x1 matrix, and found different.
C8_Witness ==
    /\ op = "eq"
    /\ shape(mat) = <<0, 2>>
    /\ shape(arg) = <<0, 1>>
    /\ ret = Ok(FALSE)

RECURSIVE FloorLog2(_)
FloorLog2(e) == IF e <= 1 THEN 0 ELSE 1 + FloorLog2(e \div 2)

\* C9: for a square matrix and an exponent e > 0, pow terminates, its
\* recursion is floor(log2 e) + 1 activations deep, and it makes at most
\* 2 * (floor(log2 e) + 1) matrix multiplications: one squaring for each
\* level and one more product for each odd level.
C9_PowCost ==
    /\ [](run.pc # "idle" /\ arg > 0 =>
             /\ run.depth <= FloorLog2(arg) + 1
             /\ run.muls <= 2 * (FloorLog2(arg) + 1)
             /\ run.muls <= 2 * run.depth)
    /\ [](run.pc = "done" /\ arg > 0 =>
             /\ run.depth = FloorLog2(arg) + 1
             /\ run.muls >= run.depth
             /\ ret = pow(mat, arg))
    /\ (run.pc \in {"call", "return"}) ~> (run.pc = "done")

\* A call with exponent 13 has returned after 4 levels and 7 multiplications.
C9_Witness ==
    /\ run.pc = "done"
    /\ arg = 13
    /\ mat.rows = 2
    /\ run.depth = 4
    /\ run.muls = 7

\* ---- the rendering C10 describes
\* The number of decimal digits of the integer part of |x|, at least 1.
IntegerDigits(x) == IF x.digit = 0 \/ x.exp < 0 THEN 1 ELSE x.exp + 1

\* The common column width: the digits of the largest-magnitude element (the
\* largest digit count), at least 1.
RECURSIVE ColumnWidth(_, _)
ColumnWidth(m, k) ==
    IF k = 0 THEN 1 ELSE Max(IntegerDigits(m.data[k]), ColumnWidth(m, k - 1))

RECURSIVE RenderRow(_, _, _)
RenderRow(m, i, j) ==
    IF j >= m.cols THEN <<"\n">>
    ELSE [k \in 1..(ColumnWidth(m, Len(m.data)) - IntegerDigits(At(m, i, j))) |-> " "]
         \o format_f64(At(m, i, j))
         \o (IF j < m.cols - 1 THEN <<" ">> ELSE <<>>)
         \o RenderRow(m, i, j + 1)

RECURSIVE RenderRows(_, _)
RenderRows(m, i) == IF i >= m.rows THEN <<>> ELSE RenderRow(m, i, 0) \o RenderRows(m, i + 1)

Rendering(m) ==
    RenderRows(m, 0) \o <<"S", "h", "a", "p", "e", ":", " ">> \o usize_to_string(m.rows)
        \o <<"x">> \o usize_to_string(m.cols)

\* C10: every element is right-aligned to one column width, the digit count
\* of the integer part of the largest-magnitude element (a negative element
\* counting by its magnitude, an element below 1 as 1 digit) and at least
\* 1; the elements of a row are separated by one space, each row ends with a
\* newline, and the text ends with "Shape: <rows>x<cols>".
C10_Rendering == op = "fmt" => ret = Ok(Rendering(mat))

\* What the code does do: the claimed rendering for the matrices whose
\* elements are 0 or at least 1.
C10_NonNegativeIntegers ==
    (op = "fmt" /\ \A k \in 1..Len(mat.data) : ~mat.data[k].neg /\ mat.data[k].exp >= 0)
        => ret = Ok(Rendering(mat))

====
